---- MODULE Spec2Model ----
(***************************************************************************)
(* Model of the request/response translation layer of kinsta-mcp:          *)
(*   - the credential loader (auth.ts: loadKinstaConfig),                  *)
(*   - the client instance cache (client-factory.ts: getKinstaClient),     *)
(*   - the HTTP client core (client.ts: KinstaClient.request) with its     *)
(*     error classification (mapHttpError, mapNetworkError).               *)
(*                                                                         *)
(* Text values (environment variables, the fingerprint, the base URL) are  *)
(* sequences of one-character strings, so that concatenation, the ":"      *)
(* separator and the trailing-"/" normalisation are computed, not assumed. *)
(*   "a"  a character of an opaque identifier                              *)
(*   ":"  the colon, which is also the fingerprint separator               *)
(*   "u"  stands for the scheme-and-host prefix of an override URL         *)
(*   "d"  stands for the text of the default production URL                *)
(*   "/"  the path separator                                               *)
(* Error messages are TLA+ strings, concatenated with \o.                  *)
(***************************************************************************)
EXTENDS Integers, Sequences, FiniteSets, TLC

VARIABLES
  env,              \* process.env: the three KINSTA_* variables
  cachedClient,     \* client-factory.ts: let cachedClient
  cachedConfigHash, \* client-factory.ts: let cachedConfigHash
  nextId,           \* identity of the next constructed KinstaClient object
  clientResult,     \* what the latest getKinstaClient call returned and did
  since,            \* history: the latest successful call and env changes after it
  rpc,              \* position of the request call
  rclient,          \* the client handle (this) the request runs on
  timer,            \* the setTimeout handle armed by the call
  aborted,          \* controller.signal.aborted
  response,         \* the Response fetch resolved with (status 0: none)
  thrown,           \* what the transport raised (kind "none": nothing)
  fetchCalls,       \* fetch invocations made by the call
  result,           \* the envelope the call resolved to
  tool,             \* the tool invocation: its position and its response
  calls             \* getKinstaClient invocations taken statement by statement

cacheVars == <<env, cachedClient, cachedConfigHash, nextId, clientResult, since>>
reqVars == <<rpc, rclient, timer, aborted, response, thrown, fetchCalls, result>>
vars == <<env, cachedClient, cachedConfigHash, nextId, clientResult, since,
          rpc, rclient, timer, aborted, response, thrown, fetchCalls, result,
          tool, calls>>

(***************************************************************************)
(* Bounds                                                                  *)
(***************************************************************************)
\* KinstaClient objects constructed in one behaviour (object identities).
MaxClients == 3

(***************************************************************************)
(* Environment                                                             *)
(***************************************************************************)
\* An environment variable is unset (undefined) or set to a string.
Unset == [set |-> FALSE, val |-> <<>>]
Str(s) == [set |-> TRUE, val |-> s]

KeyVals == {Unset, Str(<<>>), Str(<<"a">>), Str(<<":">>)}
CompanyVals == {Unset, Str(<<>>), Str(<<"a">>), Str(<<":", "a">>)}
BaseUrlVals == {Unset, Str(<<>>), Str(<<"u">>), Str(<<"u", "/">>)}

EnvNames == {"KINSTA_API_KEY", "KINSTA_COMPANY_ID", "KINSTA_API_BASE_URL"}

ValsOf(name) ==
  CASE name = "KINSTA_API_KEY" -> KeyVals
    [] name = "KINSTA_COMPANY_ID" -> CompanyVals
    [] OTHER -> BaseUrlVals

\* constants.ts: KINSTA_API_BASE_URL = "https://api.kinsta.com/v2"
KINSTA_API_BASE_URL == <<"d">>

\* x ?? fallback
OrElse(v, fallback) == IF v.set THEN v.val ELSE fallback

\* !x for a string-or-undefined value: undefined and "" are both falsy
Falsy(v) == ~v.set \/ v.val = <<>>

(***************************************************************************)
(* auth.ts                                                                 *)
(***************************************************************************)
NoApiKeyMessage ==
  "KINSTA_API_KEY environment variable is required. "
    \o "Generate one in MyKinsta > Company settings > API Keys."

NoCompanyIdMessage ==
  "KINSTA_COMPANY_ID environment variable is required. "
    \o "Find it in MyKinsta under Company settings."

NoConfig == [apiKey |-> <<>>, companyId |-> <<>>, baseUrl |-> <<>>]

\* loadKinstaConfig(): the configuration, or the KinstaAuthError it throws.
loadKinstaConfig(e) ==
  IF Falsy(e["KINSTA_API_KEY"])
  THEN [ok |-> FALSE, code |-> "NO_API_KEY", message |-> NoApiKeyMessage,
        config |-> NoConfig]
  ELSE IF Falsy(e["KINSTA_COMPANY_ID"])
  THEN [ok |-> FALSE, code |-> "NO_COMPANY_ID", message |-> NoCompanyIdMessage,
        config |-> NoConfig]
  ELSE [ok |-> TRUE, code |-> "", message |-> "",
        config |-> [apiKey |-> e["KINSTA_API_KEY"].val,
                    companyId |-> e["KINSTA_COMPANY_ID"].val,
                    baseUrl |-> OrElse(e["KINSTA_API_BASE_URL"], KINSTA_API_BASE_URL)]]

\* A check that looks at the API key only.
IsKinstaConfiguredKeyOnly(e) == ~Falsy(e["KINSTA_API_KEY"])

\* isKinstaConfigured()
isKinstaConfigured(e) ==
  ~Falsy(e["KINSTA_API_KEY"]) /\ ~Falsy(e["KINSTA_COMPANY_ID"])

(***************************************************************************)
(* client.ts: constructor                                                  *)
(***************************************************************************)
RECURSIVE StripTrailingSlashes(_)
\* baseUrl.replace(/\/+$/, "")
StripTrailingSlashes(s) ==
  IF Len(s) > 0 /\ s[Len(s)] = "/"
  THEN StripTrailingSlashes(SubSeq(s, 1, Len(s) - 1))
  ELSE s

\* The value of an unset variable of type KinstaClient | undefined.
NoClient == [id |-> 0, apiKey |-> <<>>, companyId |-> <<>>, baseUrl |-> <<>>]

\* new KinstaClient(config); id is the identity of the new object.
KinstaClient(id, config) ==
  [id |-> id, apiKey |-> config.apiKey, companyId |-> config.companyId,
   baseUrl |-> StripTrailingSlashes(config.baseUrl)]

(***************************************************************************)
(* client-factory.ts                                                       *)
(***************************************************************************)
\* getConfigHash(): `${key ?? ""}:${company ?? ""}:${base ?? ""}`
getConfigHash(e) ==
  OrElse(e["KINSTA_API_KEY"], <<>>) \o <<":">>
    \o OrElse(e["KINSTA_COMPANY_ID"], <<>>) \o <<":">>
    \o OrElse(e["KINSTA_API_BASE_URL"], <<>>)

\* A cache test that never finds the stored fingerprint equal.
CacheHitNever(client, storedHash, hash) ==
  client.id # 0 /\ storedHash = Str(hash \o <<":">>)

\* cachedClient && cachedConfigHash === hash
CacheHit(client, storedHash, hash) ==
  client.id # 0 /\ storedHash = Str(hash)

\* A catch block that returns the failure and leaves the cache as it was.
GetClientFailureKeepsCache(loaded) ==
  [cachedClient |-> cachedClient, cachedConfigHash |-> cachedConfigHash,
   ret |-> [called |-> TRUE, success |-> FALSE, raised |-> FALSE,
            client |-> NoClient,
            error |-> IF loaded.code = "VALUE" THEN "Unknown auth error"
                      ELSE loaded.message,
            loaderInvoked |-> TRUE, constructed |-> FALSE]]

\* A catch block that handles KinstaAuthError only and rethrows the rest.
GetClientFailureRethrows(loaded) ==
  [cachedClient |-> NoClient, cachedConfigHash |-> Unset,
   ret |-> [called |-> TRUE, success |-> FALSE,
            raised |-> loaded.code \notin {"NO_API_KEY", "NO_COMPANY_ID"},
            client |-> NoClient, error |-> loaded.message,
            loaderInvoked |-> TRUE, constructed |-> FALSE]]

\* The catch block of getKinstaClient: the cache is invalidated; the message
\* of a KinstaAuthError or of any other Error is returned, and the text
\* "Unknown auth error" for a thrown value that is no Error.
GetClientFailure(loaded) ==
  [cachedClient |-> NoClient, cachedConfigHash |-> Unset,
   ret |-> [called |-> TRUE, success |-> FALSE, raised |-> FALSE,
            client |-> NoClient,
            error |-> IF loaded.code \in {"NO_API_KEY", "NO_COMPANY_ID"}
                      THEN loaded.message
                      ELSE IF loaded.code = "ERROR" THEN loaded.message
                      ELSE "Unknown auth error",
            loaderInvoked |-> TRUE, constructed |-> FALSE]]

\* A getKinstaClient whose catch block unsets the client and leaves the
\* stored fingerprint behind.
GetClientWithStaleHash(loaded, hash, client, storedHash, id) ==
  IF CacheHit(client, storedHash, hash)
  THEN [cachedClient |-> client, cachedConfigHash |-> storedHash,
        ret |-> [called |-> TRUE, success |-> TRUE, raised |-> FALSE,
                 client |-> client, error |-> "", loaderInvoked |-> FALSE,
                 constructed |-> FALSE]]
  ELSE IF loaded.ok
  THEN [cachedClient |-> KinstaClient(id, loaded.config),
        cachedConfigHash |-> Str(hash),
        ret |-> [called |-> TRUE, success |-> TRUE, raised |-> FALSE,
                 client |-> KinstaClient(id, loaded.config), error |-> "",
                 loaderInvoked |-> TRUE, constructed |-> TRUE]]
  ELSE [GetClientFailure(loaded) EXCEPT !.cachedConfigHash = storedHash]

\* The body of getKinstaClient, given the fingerprint of the environment and
\* what loadKinstaConfig() gives when it is invoked (on a miss only).
GetClientWith(loaded, hash, client, storedHash, id) ==
  LET fresh == KinstaClient(id, loaded.config)
  IN IF CacheHit(client, storedHash, hash)
     THEN [cachedClient |-> client, cachedConfigHash |-> storedHash,
           ret |-> [called |-> TRUE, success |-> TRUE, raised |-> FALSE,
                    client |-> client,
                    error |-> "", loaderInvoked |-> FALSE,
                    constructed |-> FALSE]]
     ELSE IF loaded.ok
     THEN [cachedClient |-> fresh, cachedConfigHash |-> Str(hash),
           ret |-> [called |-> TRUE, success |-> TRUE, raised |-> FALSE,
                    client |-> fresh,
                    error |-> "", loaderInvoked |-> TRUE,
                    constructed |-> TRUE]]
     ELSE GetClientFailure(loaded)

\* The whole of getKinstaClient on cache state (client, storedHash) in
\* environment e: the new cache state and the returned value.
GetClientOutcome(e, client, storedHash, id) ==
  GetClientWith(loadKinstaConfig(e), getConfigHash(e), client, storedHash, id)

NoResult ==
  [called |-> FALSE, success |-> FALSE, raised |-> FALSE, client |-> NoClient,
   error |-> "", loaderInvoked |-> FALSE, constructed |-> FALSE]

NoSince == [ok |-> FALSE, client |-> NoClient, changes |-> 0, changed |-> ""]

\* getKinstaClient(_extra)
getKinstaClient ==
  LET out == GetClientOutcome(env, cachedClient, cachedConfigHash, nextId)
  IN /\ nextId <= MaxClients
     /\ cachedClient' = out.cachedClient
     /\ cachedConfigHash' = out.cachedConfigHash
     /\ clientResult' = out.ret
     /\ nextId' = IF out.ret.constructed THEN nextId + 1 ELSE nextId
     /\ since' = IF out.ret.success
                 THEN [ok |-> TRUE, client |-> out.ret.client, changes |-> 0,
                       changed |-> ""]
                 ELSE NoSince
     /\ UNCHANGED <<env>>
     /\ UNCHANGED <<reqVars, tool, calls>>

\* A client that reads the environment when it is used: a change of the
\* environment shows through the handle a caller holds.
SetEnvOfReachesHandle(names) ==
  \E name \in names :
    \E v \in ValsOf(name) :
      /\ v # env[name]
      /\ env' = [env EXCEPT ![name] = v]
      /\ since' = IF since.ok
                  THEN [since EXCEPT !.changes = IF @ < 2 THEN @ + 1 ELSE 2,
                                     !.changed = name]
                  ELSE since
      /\ rclient' = IF rclient.id # 0 /\ loadKinstaConfig(env').ok
                    THEN KinstaClient(rclient.id, loadKinstaConfig(env').config)
                    ELSE rclient
      /\ UNCHANGED <<cachedClient, cachedConfigHash, nextId, clientResult>>
      /\ UNCHANGED <<rpc, timer, aborted, response, thrown, fetchCalls, result>>
      /\ UNCHANGED <<tool, calls>>

\* The process environment is changed from outside: one variable is set to
\* another value or deleted.
SetEnvOf(names) ==
  \E name \in names :
    \E v \in ValsOf(name) :
      /\ v # env[name]
      /\ env' = [env EXCEPT ![name] = v]
      /\ since' = IF since.ok
                  THEN [since EXCEPT !.changes = IF @ < 2 THEN @ + 1 ELSE 2,
                                     !.changed = name]
                  ELSE since
      /\ UNCHANGED <<cachedClient, cachedConfigHash, nextId, clientResult>>
      /\ UNCHANGED <<reqVars, tool, calls>>

\* Any of the three variables is changed.
SetEnv == SetEnvOf(EnvNames)

\* What a loadKinstaConfig replaced by a test double throws: a
\* KinstaAuthError, a plain Error, a string.
LoaderThrows ==
  {[ok |-> FALSE, code |-> "NO_API_KEY", message |-> "Missing API key",
    config |-> NoConfig],
   [ok |-> FALSE, code |-> "ERROR", message |-> "Something went wrong",
    config |-> NoConfig],
   [ok |-> FALSE, code |-> "VALUE", message |-> "string error",
    config |-> NoConfig]}

\* The assignments of a factory call with outcome out to the module state,
\* and what the call hands back.
CacheEffect(out) ==
  /\ cachedClient' = out.cachedClient
  /\ cachedConfigHash' = out.cachedConfigHash
  /\ clientResult' = out.ret
  /\ nextId' = IF out.ret.constructed THEN nextId + 1 ELSE nextId
  /\ since' = IF out.ret.success
              THEN [ok |-> TRUE, client |-> out.ret.client, changes |-> 0,
                    changed |-> ""]
              ELSE NoSince

\* A factory call with outcome out, made on its own.
ApplyFactory(out) ==
  /\ nextId <= MaxClients
  /\ CacheEffect(out)
  /\ UNCHANGED <<env>>
  /\ UNCHANGED <<reqVars, tool, calls>>

\* getKinstaClient(_extra) with a loadKinstaConfig that throws when invoked.
getKinstaClientLoaderThrows ==
  \E fault \in LoaderThrows :
    ApplyFactory(GetClientWith(fault, getConfigHash(env), cachedClient,
                               cachedConfigHash, nextId))

\* A getKinstaClientOrThrow that hands the failure back without throwing.
OrThrowSwallows(out) == out

\* getKinstaClientOrThrow, given the outcome of its getKinstaClient call: the
\* client is returned, or an Error with the failure message is thrown.
OrThrowOutcome(out) ==
  IF out.ret.success THEN out ELSE [out EXCEPT !.ret.raised = TRUE]

\* getKinstaClientOrThrow(extra)
getKinstaClientOrThrow ==
  ApplyFactory(OrThrowOutcome(
    GetClientOutcome(env, cachedClient, cachedConfigHash, nextId)))

\* Invocations of getKinstaClient whose statements are taken one at a time.
Procs == {1, 2}

\* The locals of an invocation that has not started: hash, config, client.
NoCall ==
  [pc |-> "idle", hash |-> <<>>, config |-> NoConfig, client |-> NoClient,
   ret |-> NoResult]
NoCalls == [p \in Procs |-> NoCall]

\* What an interleaved invocation leaves alone besides the cache slot.
CallFrame ==
  /\ UNCHANGED <<env, clientResult, since>>
  /\ UNCHANGED <<reqVars, tool>>

\* const hash = getConfigHash()
CallHash(p) ==
  /\ calls[p].pc \in {"idle", "done"}
  /\ nextId <= MaxClients
  /\ calls' = [calls EXCEPT ![p] = [NoCall EXCEPT !.pc = "hashed",
                                                 !.hash = getConfigHash(env)]]
  /\ UNCHANGED <<cachedClient, cachedConfigHash, nextId>>
  /\ CallFrame

\* if (cachedClient && cachedConfigHash === hash) return { success: true, ... }
CallRead(p) ==
  /\ calls[p].pc = "hashed"
  /\ calls' = [calls EXCEPT ![p] =
       IF CacheHit(cachedClient, cachedConfigHash, calls[p].hash)
       THEN [@ EXCEPT !.pc = "done",
                      !.ret = [NoResult EXCEPT !.called = TRUE, !.success = TRUE,
                                               !.client = cachedClient]]
       ELSE [@ EXCEPT !.pc = "miss"]]
  /\ UNCHANGED <<cachedClient, cachedConfigHash, nextId>>
  /\ CallFrame

\* const config = loadKinstaConfig(), or the jump to the catch block
CallLoad(p) ==
  LET loaded == loadKinstaConfig(env)
  IN /\ calls[p].pc = "miss"
     /\ calls' = [calls EXCEPT ![p] =
          IF loaded.ok
          THEN [@ EXCEPT !.pc = "loaded", !.config = loaded.config]
          ELSE [@ EXCEPT !.pc = "caught", !.ret = GetClientFailure(loaded).ret]]
     /\ UNCHANGED <<cachedClient, cachedConfigHash, nextId>>
     /\ CallFrame

\* new KinstaClient(config)
CallConstruct(p) ==
  /\ calls[p].pc = "loaded"
  /\ calls' = [calls EXCEPT ![p] =
       [@ EXCEPT !.pc = "constructed",
                 !.client = KinstaClient(nextId, calls[p].config)]]
  /\ nextId' = nextId + 1
  /\ UNCHANGED <<cachedClient, cachedConfigHash>>
  /\ CallFrame

\* A cache write that gives way to an entry written in the meantime.
CallWriteFirstWins(p) ==
  /\ calls[p].pc = "constructed"
  /\ cachedClient' = IF cachedClient.id # 0 THEN cachedClient
                     ELSE calls[p].client
  /\ cachedConfigHash' = IF cachedClient.id # 0 THEN cachedConfigHash
                         ELSE Str(calls[p].hash)
  /\ calls' = [calls EXCEPT ![p] =
       [@ EXCEPT !.pc = "done",
                 !.ret = [NoResult EXCEPT !.called = TRUE, !.success = TRUE,
                                          !.client = cachedClient',
                                          !.loaderInvoked = TRUE,
                                          !.constructed = TRUE]]]
  /\ UNCHANGED nextId
  /\ CallFrame

\* cachedClient = <the new client>; cachedConfigHash = hash; return
CallWrite(p) ==
  /\ calls[p].pc = "constructed"
  /\ cachedClient' = calls[p].client
  /\ cachedConfigHash' = Str(calls[p].hash)
  /\ calls' = [calls EXCEPT ![p] =
       [@ EXCEPT !.pc = "done",
                 !.ret = [NoResult EXCEPT !.called = TRUE, !.success = TRUE,
                                          !.client = calls[p].client,
                                          !.loaderInvoked = TRUE,
                                          !.constructed = TRUE]]]
  /\ UNCHANGED nextId
  /\ CallFrame

\* catch (err) { cachedClient = undefined; cachedConfigHash = undefined; ... }
CallCatch(p) ==
  /\ calls[p].pc = "caught"
  /\ cachedClient' = NoClient
  /\ cachedConfigHash' = Unset
  /\ calls' = [calls EXCEPT ![p] = [@ EXCEPT !.pc = "done"]]
  /\ UNCHANGED nextId
  /\ CallFrame

\* KINSTA_API_KEY is changed.
SetApiKey == SetEnvOf({"KINSTA_API_KEY"})

InitCache ==
  /\ env \in [EnvNames -> KeyVals \cup CompanyVals \cup BaseUrlVals]
  /\ \A name \in EnvNames : env[name] \in ValsOf(name)
  /\ cachedClient = NoClient
  /\ cachedConfigHash = Unset
  /\ nextId = 1
  /\ clientResult = NoResult
  /\ since = NoSince

(***************************************************************************)
(* types.ts: KinstaClientError and the result envelope                     *)
(***************************************************************************)
\* An optional number (statusCode: number | undefined).
NoNumber == [set |-> FALSE, val |-> 0]
Num(n) == [set |-> TRUE, val |-> n]

\* An optional message text (apiMessage: string | undefined).
NoText == [set |-> FALSE, val |-> ""]
Text(s) == [set |-> TRUE, val |-> s]

KinstaErrorCode ==
  {"UNAUTHORIZED", "FORBIDDEN", "NOT_FOUND", "RATE_LIMITED", "VALIDATION_ERROR",
   "SERVER_ERROR", "NETWORK_ERROR", "TIMEOUT", "UNKNOWN"}

\* new KinstaClientError(message, code, statusCode, retryable, apiMessage)
KinstaClientError(message, code, statusCode, retryable, apiMessage) ==
  [message |-> message, code |-> code, statusCode |-> statusCode,
   retryable |-> retryable, apiMessage |-> apiMessage]

NoError == KinstaClientError("", "", NoNumber, FALSE, NoText)

\* A JSON body as far as the client looks into it: not parsable, or a value
\* that is null, the number 1, the string "Error: x", the empty array, or an
\* object whose members are `message` and `error`, in that order, each
\* absent, null, the number 1 or a string.
Absent == [t |-> "absent", s |-> ""]
JNull == [t |-> "null", s |-> ""]
JNum == [t |-> "number", s |-> ""]
JStr(s) == [t |-> "string", s |-> s]
Members == {Absent, JNull, JNum, JStr(""), JStr("slow down")}

Body(kind, message, error) == [kind |-> kind, message |-> message, error |-> error]
NotJson == Body("notjson", Absent, Absent)
ReadAborted == Body("aborted", Absent, Absent)
Unread == Body("unread", Absent, Absent)
JsonBodies ==
  {Body(k, Absent, Absent) : k \in {"null", "number", "string", "array"}}
    \cup {Body("object", m, e) : m \in Members, e \in Members}
Bodies == JsonBodies \cup {NotJson}

\* { success: true, data } | { success: false, error }
Success(data) == [success |-> TRUE, data |-> data, error |-> NoError]
Failure(error) == [success |-> FALSE, data |-> Unread, error |-> error]
NoEnvelope == [success |-> FALSE, data |-> Unread, error |-> NoError]

(***************************************************************************)
(* client.ts: error mapping                                                *)
(***************************************************************************)
\* An extraction that looks at the `message` member only.
ExtractApiMessageOnlyMessage(body) ==
  IF body.kind = "object" /\ body.message.t = "string"
  THEN Text(body.message.s) ELSE NoText

\* The try block of mapHttpError: response.json() may reject (not JSON, or
\* the read was aborted), body["message"] raises on null; both are caught.
\* msg = body["message"] ?? body["error"]; kept when typeof msg === "string".
ExtractApiMessage(body) ==
  IF body.kind # "object" THEN NoText
  ELSE LET msg == IF body.message.t \in {"absent", "null"}
                  THEN body.error ELSE body.message
       IN IF msg.t = "string" THEN Text(msg.s) ELSE NoText

\* const suffix = apiMessage ? `: ${apiMessage}` : ""
Suffix(apiMessage) ==
  IF apiMessage.set /\ apiMessage.val # "" THEN ": " \o apiMessage.val ELSE ""

\* `(${status})` for the statuses of the model
StatusText(status) ==
  CASE status = 302 -> "302" [] status = 400 -> "400" [] status = 422 -> "422"
    [] status = 499 -> "499" [] status = 500 -> "500" [] status = 503 -> "503"
    [] status = 599 -> "599" [] OTHER -> "?"

\* The switch of mapHttpError.
ClassifyStatus(status, apiMessage) ==
  LET suffix == Suffix(apiMessage)
  IN CASE status = 401 ->
            KinstaClientError("Invalid or expired API key" \o suffix,
                              "UNAUTHORIZED", Num(status), FALSE, apiMessage)
       [] status = 403 ->
            KinstaClientError(
              "Your API key does not have permission to access this resource"
                \o suffix,
              "FORBIDDEN", Num(status), FALSE, apiMessage)
       [] status = 404 ->
            KinstaClientError("Resource not found" \o suffix,
                              "NOT_FOUND", Num(status), FALSE, apiMessage)
       [] status = 429 ->
            KinstaClientError(
              "Rate limit exceeded. Please wait before retrying." \o suffix,
              "RATE_LIMITED", Num(status), TRUE, apiMessage)
       [] OTHER ->
            IF status >= 400 /\ status < 500
            THEN KinstaClientError(
                   "Client error (" \o StatusText(status) \o ")" \o suffix,
                   "VALIDATION_ERROR", Num(status), FALSE, apiMessage)
            ELSE KinstaClientError(
                   "Server error (" \o StatusText(status) \o ")" \o suffix,
                   "SERVER_ERROR", Num(status), TRUE, apiMessage)

\* A mapHttpError that gives up on a body it cannot parse.
MapHttpErrorStrictBody(status, body) ==
  IF body.kind \in {"notjson", "aborted"}
  THEN KinstaClientError("Received non-JSON response from the Kinsta API",
                         "UNKNOWN", Num(status), FALSE, NoText)
  ELSE ClassifyStatus(status, ExtractApiMessage(body))

\* mapHttpError(response), body being what reading the response body gave.
mapHttpError(status, body) ==
  ClassifyStatus(status, ExtractApiMessage(body))

\* What a promise rejected with, or a statement threw.
Thrown(source, kind, name, message) ==
  [source |-> source, kind |-> kind, name |-> name, message |-> message]
NoThrown == Thrown("none", "none", "", "")
\* The AbortError an aborted signal rejects pending work with.
AbortError(source) == Thrown(source, "Error", "AbortError", "This operation was aborted")
\* What the transport rejects with of its own accord.
TransportErrors ==
  {Thrown("fetch", "Error", "Error", "DNS resolution failed"),
   Thrown("fetch", "Error", "TypeError", "fetch failed"),
   Thrown("fetch", "Error", "Error", ""),
   Thrown("fetch", "Error", "AbortError", "The operation was aborted"),
   Thrown("fetch", "value", "", "")}

\* A mapNetworkError that flags network errors as retryable.
MapNetworkErrorRetryable(err) ==
  IF err.kind = "Error"
  THEN IF err.name = "AbortError"
       THEN KinstaClientError("Request timed out", "TIMEOUT", NoNumber, TRUE, NoText)
       ELSE KinstaClientError("Network error: " \o err.message, "NETWORK_ERROR",
                              NoNumber, TRUE, NoText)
  ELSE KinstaClientError("Unknown error occurred", "UNKNOWN", NoNumber, FALSE, NoText)

\* A mapNetworkError that does not look at the exception's name.
MapNetworkErrorNoAbort(err) ==
  IF err.kind = "Error"
  THEN KinstaClientError("Network error: " \o err.message, "NETWORK_ERROR",
                         NoNumber, FALSE, NoText)
  ELSE KinstaClientError("Unknown error occurred", "UNKNOWN", NoNumber, FALSE, NoText)

\* mapNetworkError(err)
mapNetworkError(err) ==
  IF err.kind = "Error"
  THEN IF err.name = "AbortError"
       THEN KinstaClientError("Request timed out", "TIMEOUT", NoNumber, TRUE, NoText)
       ELSE KinstaClientError("Network error: " \o err.message, "NETWORK_ERROR",
                              NoNumber, FALSE, NoText)
  ELSE KinstaClientError("Unknown error occurred", "UNKNOWN", NoNumber, FALSE, NoText)

(***************************************************************************)
(* client.ts: request                                                      *)
(***************************************************************************)
\* The statuses the transport answers with; 0 stands for "no response yet".
Statuses == {200, 204, 302, 400, 401, 403, 404, 422, 429, 499, 500, 503, 599}

\* response.ok
Ok(status) == status >= 200 /\ status <= 299

NoResponse == [status |-> 0, body |-> Unread]

\* options.path of the call
Path == <<"/", "s">>

\* new URL(text) accepts an absolute URL only: text that starts with a scheme
\* and host ("u", or "d" for the default URL). Anything else is a TypeError.
IsAbsoluteUrl(text) == Len(text) > 0 /\ text[1] \in {"u", "d"}

InvalidUrl == Thrown("url", "Error", "TypeError", "Invalid URL")
\* JSON.stringify(body) of a body that cannot be serialised (a cycle, a BigInt)
NotSerialisable ==
  Thrown("stringify", "Error", "TypeError", "Converting circular structure to JSON")

\* A finally block that forgets the timer.
KeepTimeout(t) == t

\* clearTimeout(timeoutId): a pending timer is cancelled, a timer that has
\* fired stays fired.
clearTimeout(t) == IF t = "armed" THEN "cleared" ELSE t

\* A catch block that rethrows what is not an Error.
CatchRethrowsValues(err) ==
  IF err.kind = "Error"
  THEN [pc |-> "resolved", result |-> Failure(mapNetworkError(err))]
  ELSE [pc |-> "rejected", result |-> NoEnvelope]

\* catch (err) { return { success: false, error: this.mapNetworkError(err) } }
CatchOutcome(err) ==
  [pc |-> "resolved", result |-> Failure(mapNetworkError(err))]

\* A success path that hands an unparsed body through as data.
ParseBodyLenient(status, body) == Success(body)

\* Lines 107-122: the body of a success response is parsed; a rejection of
\* response.json() (not JSON, or the read was aborted) is caught here.
ParseBody(status, body) ==
  IF body.kind \in {"notjson", "aborted"}
  THEN Failure(KinstaClientError("Received non-JSON response from the Kinsta API",
                                 "UNKNOWN", Num(status), FALSE, NoText))
  ELSE Success(body)

\* The call returns: the finally block runs, the promise settles.
Settle(pc, envelope) ==
  /\ rpc' = pc
  /\ result' = envelope
  /\ timer' = clearTimeout(timer)

\* request(options) on client, up to its first suspension point: the URL is
\* built (outside the try block), the timer is armed, the body is serialised
\* and fetch is called.
StartRequest(client, body) ==
  /\ aborted' = FALSE
  /\ response' = NoResponse
  /\ IF ~IsAbsoluteUrl(client.baseUrl \o Path)
     THEN /\ rpc' = "rejected"
          /\ thrown' = InvalidUrl
          /\ timer' = "none"
          /\ result' = NoEnvelope
          /\ fetchCalls' = 0
     ELSE IF body = "unserialisable"
     THEN /\ rpc' = CatchOutcome(NotSerialisable).pc
          /\ result' = CatchOutcome(NotSerialisable).result
          /\ thrown' = NotSerialisable
          /\ timer' = clearTimeout("armed")
          /\ fetchCalls' = 0
     ELSE /\ rpc' = "fetching"
          /\ thrown' = NoThrown
          /\ timer' = "armed"
          /\ result' = NoEnvelope
          /\ fetchCalls' = 1

\* A request call made on the handle rclient.
RequestStart ==
  \E body \in {"none", "json", "unserialisable"} :
    /\ rpc \in {"idle", "resolved", "rejected"}
    /\ rclient.id # 0
    /\ StartRequest(rclient, body)
    /\ UNCHANGED rclient
    /\ UNCHANGED <<cacheVars, tool, calls>>

\* The setTimeout callback: controller.abort().
TimerFires ==
  /\ timer = "armed"
  /\ timer' = "fired"
  /\ aborted' = TRUE
  /\ UNCHANGED <<rpc, rclient, response, thrown, fetchCalls, result>>
  /\ UNCHANGED <<cacheVars, tool, calls>>

\* fetch resolves with a response (its headers have arrived); the call goes
\* on to read the body: `await response.json()` in mapHttpError or in request.
FetchResolves ==
  \E status \in Statuses :
    /\ rpc = "fetching"
    /\ ~aborted
    /\ response' = [status |-> status, body |-> Unread]
    /\ rpc' = IF Ok(status) THEN "readingOk" ELSE "readingErr"
    /\ UNCHANGED <<rclient, timer, aborted, thrown, fetchCalls, result>>
    /\ UNCHANGED <<cacheVars, tool, calls>>

\* A rejection handler that calls fetch again when the mapped error is
\* retryable.
FetchRejectsRetries ==
  \E err \in TransportErrors \cup {AbortError("fetch")} :
    /\ rpc = "fetching"
    /\ aborted <=> err = AbortError("fetch")
    /\ thrown' = err
    /\ IF mapNetworkError(err).retryable /\ fetchCalls < 2
       THEN /\ fetchCalls' = fetchCalls + 1
            /\ UNCHANGED <<rpc, result, timer>>
       ELSE /\ Settle(CatchOutcome(err).pc, CatchOutcome(err).result)
            /\ UNCHANGED fetchCalls
    /\ UNCHANGED <<rclient, aborted, response>>
    /\ UNCHANGED <<cacheVars, tool, calls>>

\* fetch rejects: with the signal's AbortError once the signal is aborted,
\* otherwise with whatever the transport raises.
FetchRejects ==
  \E err \in TransportErrors \cup {AbortError("fetch")} :
    /\ rpc = "fetching"
    /\ aborted <=> err = AbortError("fetch")
    /\ thrown' = err
    /\ Settle(CatchOutcome(err).pc, CatchOutcome(err).result)
    /\ UNCHANGED <<rclient, aborted, response, fetchCalls>>
    /\ UNCHANGED <<cacheVars, tool, calls>>

\* response.json() of a success response settles.
SuccessBodyRead ==
  \E body \in Bodies \cup {ReadAborted} :
    /\ rpc = "readingOk"
    /\ aborted <=> body = ReadAborted
    /\ response' = [response EXCEPT !.body = body]
    /\ Settle("resolved", ParseBody(response.status, body))
    /\ UNCHANGED <<rclient, aborted, thrown, fetchCalls>>
    /\ UNCHANGED <<cacheVars, tool, calls>>

\* An error path that also drops the cache entry when the status is 401.
ErrorBodyReadInvalidates ==
  \E body \in Bodies \cup {ReadAborted} :
    /\ rpc = "readingErr"
    /\ aborted <=> body = ReadAborted
    /\ response' = [response EXCEPT !.body = body]
    /\ Settle("resolved", Failure(mapHttpError(response.status, body)))
    /\ cachedClient' = IF response.status = 401 THEN NoClient ELSE cachedClient
    /\ cachedConfigHash' = IF response.status = 401 THEN Unset
                           ELSE cachedConfigHash
    /\ UNCHANGED <<rclient, aborted, thrown, fetchCalls>>
    /\ UNCHANGED <<env, nextId, clientResult, since, tool, calls>>

\* response.json() of a non-success response settles inside mapHttpError.
ErrorBodyRead ==
  \E body \in Bodies \cup {ReadAborted} :
    /\ rpc = "readingErr"
    /\ aborted <=> body = ReadAborted
    /\ response' = [response EXCEPT !.body = body]
    /\ Settle("resolved", Failure(mapHttpError(response.status, body)))
    /\ UNCHANGED <<rclient, aborted, thrown, fetchCalls>>
    /\ UNCHANGED <<cacheVars, tool, calls>>

InitRequestVars ==
  /\ rpc = "idle"
  /\ timer = "none"
  /\ aborted = FALSE
  /\ response = NoResponse
  /\ thrown = NoThrown
  /\ fetchCalls = 0
  /\ result = NoEnvelope

(***************************************************************************)
(* tools/utils.ts                                                          *)
(***************************************************************************)
\* Characters of the class [a-zA-Z0-9_-], one of each sort.
SafeIdChars == {"a", "Z", "0", "_", "-"}

\* SAFE_ID_PATTERN.test(value): /^[a-zA-Z0-9_-]+$/
SafeIdPatternTest(value) ==
  Len(value) > 0 /\ \A i \in 1..Len(value) : value[i] \in SafeIdChars

\* validateId(value, paramName): the error text, or null.
validateId(value, paramName) ==
  IF ~SafeIdPatternTest(value)
  THEN Text("Invalid " \o paramName \o ": contains illegal characters")
  ELSE NoText

ERROR_MESSAGES ==
  [code \in {"UNAUTHORIZED", "FORBIDDEN", "RATE_LIMITED"} |->
     CASE code = "UNAUTHORIZED" ->
            "Your API key is invalid or expired. Generate a new one in "
              \o "MyKinsta > Company settings > API Keys."
       [] code = "FORBIDDEN" ->
            "Your API key does not have permission to access this resource."
       [] OTHER ->
            "You have exceeded Kinsta's rate limit. "
              \o "Please wait a moment before trying again."]

\* A tool response: isError (set to true, or not set), the text of its one
\* content block, and structuredContent (set or not).
NoStructuredContent == [set |-> FALSE, val |-> Unread]
ToolResponse(isError, text, structuredContent) ==
  [isError |-> isError, text |-> text, structuredContent |-> structuredContent]
NoToolResponse == ToolResponse(FALSE, "", NoStructuredContent)

\* A formatError that always renders the raw message.
FormatErrorRaw(error, resourceType) ==
  ToolResponse(TRUE, "Kinsta API Error (" \o error.code \o "): " \o error.message,
               NoStructuredContent)

\* formatError(error, resourceType?)
formatError(error, resourceType) ==
  LET errorMessage ==
        IF error.code = "NOT_FOUND" /\ resourceType.set /\ resourceType.val # ""
        THEN "The requested " \o resourceType.val \o " was not found."
        ELSE IF error.code \in DOMAIN ERROR_MESSAGES
        THEN ERROR_MESSAGES[error.code]
        ELSE error.message
  IN ToolResponse(TRUE, "Kinsta API Error (" \o error.code \o "): " \o errorMessage,
                  NoStructuredContent)

\* formatAuthError(message)
formatAuthError(message) ==
  ToolResponse(TRUE, "Authentication Error: " \o message, NoStructuredContent)

\* formatValidationError(message)
formatValidationError(message) ==
  ToolResponse(TRUE, "Error: " \o message, NoStructuredContent)

\* JSON.stringify of a member value.
MemberText(m) ==
  CASE m.t = "null" -> "null"
    [] m.t = "number" -> "1"
    [] OTHER -> "\"" \o m.s \o "\""

\* JSON.stringify(data, null, 2) for the bodies of the model.
JsonStringify(data) ==
  CASE data.kind = "null" -> "null"
    [] data.kind = "number" -> "1"
    [] data.kind = "string" -> "\"Error: x\""
    [] data.kind = "array" -> "[]"
    [] OTHER ->
         LET m == IF data.message.t = "absent" THEN ""
                  ELSE "  \"message\": " \o MemberText(data.message)
             e == IF data.error.t = "absent" THEN ""
                  ELSE "  \"error\": " \o MemberText(data.error)
         IN IF m = "" /\ e = "" THEN "{}"
            ELSE "{\n" \o m \o (IF m # "" /\ e # "" THEN ",\n" ELSE "") \o e
                   \o "\n}"

\* typeof data
TypeOf(data) ==
  IF data.kind \in {"null", "array", "object"} THEN "object" ELSE data.kind

\* A formatSuccess that sets structuredContent whatever the payload is.
FormatSuccessAlwaysStructured(data) ==
  ToolResponse(FALSE, JsonStringify(data), [set |-> TRUE, val |-> data])

\* formatSuccess(data)
formatSuccess(data) ==
  ToolResponse(FALSE, JsonStringify(data),
               IF data.kind # "null" /\ TypeOf(data) = "object"
               THEN [set |-> TRUE, val |-> data]
               ELSE NoStructuredContent)

(***************************************************************************)
(* tools: the handlers of kinsta.sites.get and kinsta.auth.validate        *)
(***************************************************************************)
Tools == {"kinsta.sites.get", "kinsta.auth.validate"}

\* The site_id argument: empty, two safe ones, a path, one ending in a line
\* feed.
Ids == {<<>>, <<"a">>, <<"Z", "0", "_", "-">>, <<".", ".", "/">>, <<"a", "\n">>}

\* The second argument the handler passes to formatError.
ResourceType(name) ==
  IF name = "kinsta.sites.get" THEN Text("site") ELSE NoText

\* A handler that acquires the client before it validates the ID.
HandlerEntryAcquiresFirst(name, id, out) ==
  IF ~out.ret.success
  THEN [stage |-> "auth", asked |-> TRUE,
        response |-> formatAuthError(out.ret.error)]
  ELSE IF name = "kinsta.sites.get" /\ validateId(id, "site_id").set
  THEN [stage |-> "validation", asked |-> TRUE,
        response |-> formatValidationError(validateId(id, "site_id").val)]
  ELSE [stage |-> "request", asked |-> TRUE, response |-> NoToolResponse]

\* The handler up to its await: validateId (kinsta.sites.get only), then
\* getKinstaClient, whose outcome is out, then the request call.
HandlerEntry(name, id, out) ==
  IF name = "kinsta.sites.get" /\ validateId(id, "site_id").set
  THEN [stage |-> "validation", asked |-> FALSE,
        response |-> formatValidationError(validateId(id, "site_id").val)]
  ELSE IF ~out.ret.success
  THEN [stage |-> "auth", asked |-> TRUE,
        response |-> formatAuthError(out.ret.error)]
  ELSE [stage |-> "request", asked |-> TRUE, response |-> NoToolResponse]

\* The handler after its await.
HandlerResult(name, res) ==
  IF ~res.success
  THEN formatError(res.error, ResourceType(name))
  ELSE formatSuccess(res.data)

NoTool ==
  [pc |-> "idle", name |-> "", id |-> <<>>, stage |-> "none", asked |-> FALSE,
   response |-> NoToolResponse]

\* A tool is invoked: the handler runs to its return or to its await.
ToolInvoke ==
  \E name \in Tools :
    \E id \in Ids :
      LET out == GetClientOutcome(env, cachedClient, cachedConfigHash, nextId)
          entry == HandlerEntry(name, id, out)
      IN /\ tool.pc # "awaiting"
         /\ rpc \in {"idle", "resolved", "rejected"}
         /\ nextId <= MaxClients
         /\ name = "kinsta.auth.validate" => id = <<>>
         /\ IF entry.asked
            THEN CacheEffect(out)
            ELSE UNCHANGED <<cachedClient, cachedConfigHash, nextId,
                             clientResult, since>>
         /\ IF entry.stage = "request"
            THEN /\ StartRequest(out.ret.client, "none")
                 /\ rclient' = out.ret.client
            ELSE UNCHANGED reqVars
         /\ tool' = [pc |-> IF entry.stage = "request"
                            THEN "awaiting" ELSE "returned",
                     name |-> name, id |-> id, stage |-> entry.stage,
                     asked |-> entry.asked, response |-> entry.response]
         /\ UNCHANGED <<env, calls>>

\* A handler that drops the cache entry when it formats a failure.
ToolFinishInvalidates ==
  /\ tool.pc = "awaiting"
  /\ rpc \in {"resolved", "rejected"}
  /\ tool' = IF rpc = "rejected"
             THEN [tool EXCEPT !.pc = "threw"]
             ELSE [tool EXCEPT !.pc = "returned",
                               !.stage = IF result.success
                                         THEN "success" ELSE "failure",
                               !.response = HandlerResult(tool.name, result)]
  /\ cachedClient' = IF rpc = "resolved" /\ ~result.success
                     THEN NoClient ELSE cachedClient
  /\ cachedConfigHash' = IF rpc = "resolved" /\ ~result.success
                         THEN Unset ELSE cachedConfigHash
  /\ UNCHANGED <<env, nextId, clientResult, since, reqVars, calls>>

\* The request call has settled: the handler resumes and returns, or lets
\* the rejection through.
ToolFinish ==
  /\ tool.pc = "awaiting"
  /\ rpc \in {"resolved", "rejected"}
  /\ tool' = IF rpc = "rejected"
             THEN [tool EXCEPT !.pc = "threw"]
             ELSE [tool EXCEPT !.pc = "returned",
                               !.stage = IF result.success
                                         THEN "success" ELSE "failure",
                               !.response = HandlerResult(tool.name, result)]
  /\ UNCHANGED <<cacheVars, reqVars, calls>>

(***************************************************************************)
(* tools: the handler of kinsta.ping                                       *)
(***************************************************************************)
\* formatMessage(message)
formatMessage(message) == ToolResponse(FALSE, message, NoStructuredContent)

\* The handler's return value, given what isKinstaConfigured() returned.
PingResponse(configured) ==
  IF ~configured
  THEN ToolResponse(TRUE,
         "Kinsta MCP server is running, but API credentials are not configured.\n\n"
           \o "Please set the following environment variables:\n"
           \o "  - KINSTA_API_KEY: Your Kinsta API key "
           \o "(from MyKinsta > Company settings > API Keys)\n"
           \o "  - KINSTA_COMPANY_ID: Your Kinsta company ID",
         NoStructuredContent)
  ELSE formatMessage(
         "Kinsta MCP server is running and API credentials are configured.")

\* kinsta.ping is invoked; the handler is synchronous.
Ping ==
  /\ tool.pc # "awaiting"
  /\ tool' = [pc |-> "returned", name |-> "kinsta.ping", id |-> <<>>,
              stage |-> "ping", asked |-> FALSE,
              response |-> PingResponse(isKinstaConfigured(env))]
  /\ UNCHANGED <<cacheVars, reqVars, calls>>

(***************************************************************************)
(* Specifications                                                          *)
(***************************************************************************)
Envs == {e \in [EnvNames -> KeyVals \cup CompanyVals \cup BaseUrlVals] :
           \A name \in EnvNames : e[name] \in ValsOf(name)}

\* The client cache under a changing environment; no request is made.
InitCacheSpec ==
  /\ InitCache
  /\ rclient = NoClient
  /\ InitRequestVars
  /\ tool = NoTool
  /\ calls = NoCalls

NextCache == getKinstaClient \/ SetEnv

SpecCache == InitCacheSpec /\ [][NextCache]_vars

\* The factory's two entry points, with the real loader and with one that
\* throws, under a changing environment.
NextFactory ==
  \/ getKinstaClient
  \/ SetEnv
  \/ getKinstaClientLoaderThrows
  \/ getKinstaClientOrThrow

SpecFactory == InitCacheSpec /\ [][NextFactory]_vars

\* Two getKinstaClient invocations whose statements interleave with each
\* other and with changes of the API key; the company id is set and the base
\* URL is not, so that no two loadable environments share a fingerprint.
InitRace ==
  /\ InitCacheSpec
  /\ env["KINSTA_COMPANY_ID"] = Str(<<"a">>)
  /\ env["KINSTA_API_BASE_URL"] = Unset

NextRace ==
  \/ \E p \in Procs : CallHash(p)
  \/ \E p \in Procs : CallRead(p)
  \/ \E p \in Procs : CallLoad(p)
  \/ \E p \in Procs : CallConstruct(p)
  \/ \E p \in Procs : CallWrite(p)
  \/ \E p \in Procs : CallCatch(p)
  \/ SetApiKey

SpecRace == InitRace /\ [][NextRace]_vars

\* The health probe next to the client cache, under a changing environment.
NextPing == getKinstaClient \/ SetEnv \/ Ping

SpecPing == InitCacheSpec /\ [][NextPing]_vars

\* One client, constructed from a configuration the loader can yield, and
\* the request calls made on it; the environment and the cache stay put.
InitRequest ==
  /\ env = [name \in EnvNames |-> Unset]
  /\ cachedClient = NoClient
  /\ cachedConfigHash = Unset
  /\ nextId = 1
  /\ clientResult = NoResult
  /\ since = NoSince
  /\ rclient \in {KinstaClient(1, loadKinstaConfig(e).config) :
                    e \in {x \in Envs : loadKinstaConfig(x).ok}}
  /\ InitRequestVars
  /\ tool = NoTool
  /\ calls = NoCalls

NextRequest ==
  \/ RequestStart
  \/ TimerFires
  \/ FetchResolves
  \/ FetchRejects
  \/ SuccessBodyRead
  \/ ErrorBodyRead

SpecRequest == InitRequest /\ [][NextRequest]_vars

\* The same under the scheduling the runtime gives a call: an armed timer
\* fires, a pending fetch settles (an aborted one rejects), and a pending
\* body read settles.
FairRequest ==
  /\ WF_vars(TimerFires)
  /\ WF_vars(FetchResolves \/ FetchRejects)
  /\ WF_vars(SuccessBodyRead)
  /\ WF_vars(ErrorBodyRead)

SpecRequestFair == SpecRequest /\ FairRequest

\* A caller keeps the client a successful getKinstaClient call returned
\* (`const client = result.client`) and makes its request calls on it.
TakeHandle ==
  /\ clientResult.called
  /\ clientResult.success
  /\ rpc \in {"idle", "resolved", "rejected"}
  /\ rclient # clientResult.client
  /\ rclient' = clientResult.client
  /\ UNCHANGED <<rpc, timer, aborted, response, thrown, fetchCalls, result>>
  /\ UNCHANGED <<cacheVars, tool, calls>>

\* The API key or the base-URL override is changed.
SetKeyOrBaseUrl == SetEnvOf({"KINSTA_API_KEY", "KINSTA_API_BASE_URL"})

\* Handles that outlive a change of the environment: a caller takes the
\* client of a factory call and makes request calls on it while the
\* environment changes and the cache is invalidated and rebuilt. The company
\* id stays set, and the transport answers no call: a call ends by raising
\* at once, by a transport error or by the timeout.
InitHandle ==
  /\ InitCacheSpec
  /\ env["KINSTA_COMPANY_ID"] = Str(<<"a">>)

NextHandle ==
  \/ getKinstaClient
  \/ SetKeyOrBaseUrl
  \/ TakeHandle
  \/ RequestStart
  \/ TimerFires
  \/ FetchRejects

SpecHandle == InitHandle /\ [][NextHandle]_vars

\* Tool invocations: the handlers, the client cache they go through, and the
\* request calls they make.
NextTool ==
  \/ ToolInvoke
  \/ ToolFinish
  \/ TimerFires
  \/ FetchResolves
  \/ FetchRejects
  \/ SuccessBodyRead
  \/ ErrorBodyRead
  \/ getKinstaClient

SpecTool == InitCacheSpec /\ [][NextTool]_vars

(***************************************************************************)
(* Properties of the client cache                                          *)
(***************************************************************************)
\* C2: after a successful getKinstaClient call, a later call made with no
\* change of the environment in between returns the same client object, and
\* neither invokes the credential loader nor constructs a client.
C2_CachedClientReused ==
  [][(getKinstaClient /\ since.ok /\ since.changes = 0)
       => /\ clientResult'.success
          /\ clientResult'.client = since.client
          /\ ~clientResult'.constructed
          /\ ~clientResult'.loaderInvoked
          /\ nextId' = nextId]_vars

\* A call has been answered from the cache.
C2_Witness ==
  /\ clientResult.success
  /\ ~clientResult.constructed
  /\ ~clientResult.loaderInvoked
  /\ since.ok /\ since.changes = 0
  /\ clientResult.client.id # 0

\* C3 (as claimed): after a successful getKinstaClient call, a call made after
\* one of the three variables was changed, the environment still being
\* loadable, returns a different, newly constructed client.
C3_MutationRebuildsClient ==
  [][(getKinstaClient /\ since.ok /\ since.changes = 1
        /\ loadKinstaConfig(env).ok)
       => /\ clientResult'.success
          /\ clientResult'.constructed
          /\ clientResult'.client.id # since.client.id]_vars

\* C4 (as claimed): whatever the cache holds, a getKinstaClient call made
\* while the API key or the company id is absent or empty returns a failure
\* whose message names the missing variable, and calls no transport.
C4_MissingCredentialFails ==
  [][(getKinstaClient /\ ~isKinstaConfigured(env))
       => /\ ~clientResult'.success
          /\ clientResult'.error =
               (IF Falsy(env["KINSTA_API_KEY"])
                THEN NoApiKeyMessage ELSE NoCompanyIdMessage)
          /\ fetchCalls' = fetchCalls]_vars

(***************************************************************************)
(* Properties of the fingerprint                                           *)
(***************************************************************************)
\* C14 (as claimed): the fingerprint is deterministic and sensitive to each
\* field: a step that leaves the environment alone leaves the fingerprint
\* alone, and a change of one variable that changes a field of the loaded
\* configuration (API key, company id or base URL) changes the fingerprint.
C14_FingerprintSensitive ==
  [][/\ env' = env => getConfigHash(env') = getConfigHash(env)
     /\ (SetEnv /\ loadKinstaConfig(env).ok /\ loadKinstaConfig(env').ok
           /\ loadKinstaConfig(env').config # loadKinstaConfig(env).config)
          => getConfigHash(env') # getConfigHash(env)]_vars

\* The optional base-URL variable is either unset or set to the empty string.
BaseUrlUnsetOrEmpty(e) ==
  e["KINSTA_API_BASE_URL"] \in {Unset, Str(<<>>)}

\* C15 (as claimed): toggling KINSTA_API_BASE_URL between unset and the empty
\* string changes the fingerprint, and a client returned while the variable is
\* unset or empty was built for that environment's base URL (the default URL
\* when unset, the empty string when empty), not for the other one's.
C15_UnsetAndEmptyDoNotAlias ==
  [][/\ (SetEnv /\ BaseUrlUnsetOrEmpty(env) /\ BaseUrlUnsetOrEmpty(env')
           /\ env'["KINSTA_API_BASE_URL"] # env["KINSTA_API_BASE_URL"])
          => getConfigHash(env') # getConfigHash(env)
     /\ (getKinstaClient /\ BaseUrlUnsetOrEmpty(env) /\ clientResult'.success
           /\ loadKinstaConfig(env).ok)
          => clientResult'.client.baseUrl =
               StripTrailingSlashes(loadKinstaConfig(env).config.baseUrl)]_vars

(***************************************************************************)
(* Properties of request                                                   *)
(***************************************************************************)
\* The call has returned or raised.
Finished == rpc \in {"resolved", "rejected"}

\* C1 (as claimed): when the timer fired while the call was in flight, the
\* request was aborted and the call resolved to a TIMEOUT failure that is
\* retryable.
C1_TimeoutResolvesTimeout ==
  (Finished /\ timer = "fired")
    => /\ rpc = "resolved"
       /\ aborted
       /\ ~result.success
       /\ result.error.code = "TIMEOUT"
       /\ result.error.retryable

\* C5: for a non-success response the kind and the retryable flag follow
\* from the status code alone, whatever the body was: 401 UNAUTHORIZED, 403
\* FORBIDDEN, 404 NOT_FOUND, 429 RATE_LIMITED (retryable), other 4xx
\* VALIDATION_ERROR, 5xx SERVER_ERROR (retryable); every status gets one kind
\* of the closed set, and the call does not raise.
C5_StatusDecidesKind ==
  (response.status # 0 /\ ~Ok(response.status))
    => /\ rpc # "rejected"
       /\ rpc = "resolved" =>
            LET st == response.status
                err == result.error
            IN /\ ~result.success
               /\ err.code \in KinstaErrorCode
               /\ st = 401 => err.code = "UNAUTHORIZED" /\ ~err.retryable
               /\ st = 403 => err.code = "FORBIDDEN" /\ ~err.retryable
               /\ st = 404 => err.code = "NOT_FOUND" /\ ~err.retryable
               /\ st = 429 => err.code = "RATE_LIMITED" /\ err.retryable
               /\ (st \in 400..499 /\ st \notin {401, 403, 404, 429})
                    => err.code = "VALIDATION_ERROR" /\ ~err.retryable
               /\ st \in 500..599 => err.code = "SERVER_ERROR" /\ err.retryable

\* A rate-limit response whose body was not JSON has been classified.
C5_Witness ==
  /\ rpc = "resolved"
  /\ response.status = 429
  /\ response.body = NotJson
  /\ result.error.code = "RATE_LIMITED"

\* C6: a failure envelope is flagged retryable exactly when its kind is
\* RATE_LIMITED, SERVER_ERROR or TIMEOUT.
C6_RetryableKinds ==
  (rpc = "resolved" /\ ~result.success)
    => (result.error.retryable
          <=> result.error.code \in {"RATE_LIMITED", "SERVER_ERROR", "TIMEOUT"})

\* A network failure has been returned, not retryable.
C6_Witness ==
  /\ rpc = "resolved"
  /\ ~result.success
  /\ result.error.code = "NETWORK_ERROR"
  /\ ~result.error.retryable

\* C7: when the call met an HTTP error status, a transport failure or the
\* timeout, it resolved to a failure envelope with a classified error; it did
\* not raise.
C7_ExpectedFailuresResolve ==
  (Finished /\ \/ (response.status # 0 /\ ~Ok(response.status))
               \/ thrown.source = "fetch"
               \/ timer = "fired")
    => /\ rpc = "resolved"
       /\ ~result.success
       /\ result.error.code \in KinstaErrorCode

\* The transport raised a value that is no Error and the call resolved.
C7_Witness ==
  /\ rpc = "resolved"
  /\ thrown.source = "fetch"
  /\ thrown.kind = "value"
  /\ ~result.success

\* C8: a success status with a body that is not JSON gives a failure
\* envelope of kind UNKNOWN, not retryable, whose message says that a
\* non-JSON response was received; neither a raise nor a success envelope.
C8_NonJsonSuccessBody ==
  (Ok(response.status) /\ response.body.kind = "notjson")
    => /\ rpc = "resolved"
       /\ ~result.success
       /\ result.error.code = "UNKNOWN"
       /\ ~result.error.retryable
       /\ result.error.message = "Received non-JSON response from the Kinsta API"

\* A 200 response with a non-JSON body has been handled.
C8_Witness ==
  /\ rpc = "resolved"
  /\ response.status = 200
  /\ response.body = NotJson

C10_TimerCleared ==
  Finished => (timer # "armed" /\ ~ENABLED TimerFires)

\* A call that armed the timer returned a success envelope.
C10_Witness ==
  /\ rpc = "resolved"
  /\ result.success
  /\ timer = "cleared"

(***************************************************************************)
(* Properties of the factory's failure handling                            *)
(***************************************************************************)
\* A step of getKinstaClient, with the real loader or with one that throws.
GetClientStep == getKinstaClient \/ getKinstaClientLoaderThrows

\* C11: whenever getKinstaClient returns a failure, the cached client and the
\* stored fingerprint are both unset afterwards, whatever was cached before;
\* a successful call that follows a failed one constructs a new client (an
\* object not handed out before).
C11_FailureClearsCache ==
  [][GetClientStep
       => /\ ~clientResult'.success
               => (cachedClient' = NoClient /\ cachedConfigHash' = Unset)
          /\ (clientResult.called /\ ~clientResult.success
                /\ clientResult'.success)
               => /\ clientResult'.constructed
                  /\ clientResult'.client.id = nextId
                  /\ nextId' = nextId + 1]_vars

\* A call failed after a client had been constructed, and the cache is empty.
C11_Witness ==
  /\ clientResult.called
  /\ ~clientResult.success
  /\ nextId > 1
  /\ cachedClient = NoClient
  /\ cachedConfigHash = Unset

\* C12: getKinstaClient does not raise; a failure of the loader comes back as
\* {success: false, error}: the missing-field message for a configuration
\* error, the message of any other Error, and 'Unknown auth error' for a
\* thrown value that is no Error.
C12_FailuresAreReturned ==
  [][/\ getKinstaClient
          => /\ ~clientResult'.raised
             /\ ~clientResult'.success
                  => clientResult'.error = loadKinstaConfig(env).message
     /\ \A fault \in LoaderThrows :
          ApplyFactory(GetClientWith(fault, getConfigHash(env), cachedClient,
                                     cachedConfigHash, nextId))
            => /\ ~clientResult'.raised
               /\ (~clientResult'.success /\ fault.code = "NO_API_KEY")
                    => clientResult'.error = "Missing API key"
               /\ (~clientResult'.success /\ fault.code = "ERROR")
                    => clientResult'.error = "Something went wrong"
               /\ (~clientResult'.success /\ fault.code = "VALUE")
                    => clientResult'.error = "Unknown auth error"]_vars

\* The loader threw a string and the call returned the fallback text.
C12_Witness ==
  /\ clientResult.called
  /\ ~clientResult.success
  /\ ~clientResult.raised
  /\ clientResult.error = "Unknown auth error"

\* C13: getKinstaClientOrThrow resolves as getKinstaClient does in the same
\* cache state and environment: the same cache afterwards, the same client
\* when getKinstaClient succeeds, and an Error with the failure message
\* exactly when getKinstaClient returns a failure.
C13_OrThrowMatchesGetClient ==
  [][getKinstaClientOrThrow
       => LET out == GetClientOutcome(env, cachedClient, cachedConfigHash, nextId)
          IN /\ cachedClient' = out.cachedClient
             /\ cachedConfigHash' = out.cachedConfigHash
             /\ clientResult'.raised <=> ~out.ret.success
             /\ out.ret.success
                  => /\ clientResult'.success
                     /\ clientResult'.client = out.ret.client
             /\ ~out.ret.success
                  => clientResult'.error = out.ret.error]_vars

\* getKinstaClientOrThrow threw the missing-API-key message.
C13_Witness ==
  /\ clientResult.raised
  /\ ~clientResult.success
  /\ clientResult.error = NoApiKeyMessage

\* Kinds whose errors carry retryable = true.
RetryableKinds == {"RATE_LIMITED", "SERVER_ERROR", "TIMEOUT", "NETWORK_ERROR"}

RequestOnCachedClient == cachedClient.id # 0 /\ rclient = cachedClient

\* A request made through the cached handle has come back UNAUTHORIZED.
UnauthorizedThroughCache ==
  /\ rpc = "resolved"
  /\ ~result.success
  /\ result.error.code = "UNAUTHORIZED"
  /\ RequestOnCachedClient

\* C16 (as claimed): when a request through the cached handle is classified
\* UNAUTHORIZED the cache entry is dropped, and the getKinstaClient call that
\* follows invokes the credential loader rather than returning that handle.
C16_UnauthorizedInvalidates ==
  [][/\ (ErrorBodyRead /\ RequestOnCachedClient /\ result'.error.code = "UNAUTHORIZED")
          => (cachedClient' = NoClient /\ cachedConfigHash' = Unset)
     /\ (getKinstaClient /\ UnauthorizedThroughCache)
          => clientResult'.loaderInvoked]_vars

\* C16 (amended): a request classified UNAUTHORIZED leaves the cached client
\* and the stored fingerprint as they were, and a getKinstaClient call that
\* follows with the environment's fingerprint still equal to the stored one
\* returns the same handle without invoking the credential loader.
C16_UnauthorizedKeepsCache ==
  [][/\ (ErrorBodyRead /\ RequestOnCachedClient /\ result'.error.code = "UNAUTHORIZED")
          => UNCHANGED <<cachedClient, cachedConfigHash>>
     /\ (getKinstaClient /\ UnauthorizedThroughCache
           /\ cachedConfigHash = Str(getConfigHash(env)))
          => /\ clientResult'.success
             /\ clientResult'.client = cachedClient
             /\ ~clientResult'.loaderInvoked
             /\ UNCHANGED <<cachedClient, cachedConfigHash>>]_vars

\* A tool's request came back UNAUTHORIZED and the handle it used is still
\* the cached one.
C16_Witness ==
  /\ UnauthorizedThroughCache
  /\ cachedConfigHash = Str(getConfigHash(env))
  /\ tool.pc = "returned"
  /\ tool.stage = "failure"

\* text.startsWith(prefix)
StartsWith(text, prefix) ==
  Len(text) >= Len(prefix) /\ SubSeq(text, 1, Len(prefix)) = prefix

\* C18: a tool invocation validates its input, then acquires the client, then
\* makes the network call. A step that returns a response starting with
\* 'Error: ' or 'Authentication Error: ' starts no request and makes no fetch
\* call; one starting with 'Error: ' leaves the client cache and the record
\* of getKinstaClient calls untouched; an invalid site_id always ends that
\* way; and a response starting with 'Kinsta API Error (' is returned by the
\* step that follows a request call that returned a failure.
C18_StepsOrdered ==
  [][(tool' # tool /\ tool'.pc = "returned")
       => LET text == tool'.response.text
          IN /\ StartsWith(text, "Error: ")
                  => /\ UNCHANGED reqVars
                     /\ UNCHANGED cacheVars
                     /\ ~tool'.asked
                     /\ ~SafeIdPatternTest(tool'.id)
             /\ StartsWith(text, "Authentication Error: ")
                  => /\ UNCHANGED reqVars
                     /\ tool'.asked
                     /\ ~clientResult'.success
                     /\ text = "Authentication Error: " \o clientResult'.error
             /\ (tool'.name = "kinsta.sites.get" /\ ~SafeIdPatternTest(tool'.id))
                  => (StartsWith(text, "Error: ") /\ ~tool'.asked)
             /\ StartsWith(text, "Kinsta API Error (")
                  => /\ tool.pc = "awaiting"
                     /\ rpc = "resolved"
                     /\ ~result.success
                     /\ tool'.asked
                     /\ UNCHANGED <<cacheVars, reqVars>>]_vars

\* An invalid site_id was rejected although the environment cannot be loaded:
\* getKinstaClient has not been called and no fetch call was made.
C18_Witness ==
  /\ tool.pc = "returned"
  /\ tool.stage = "validation"
  /\ StartsWith(tool.response.text, "Error: Invalid site_id")
  /\ ~loadKinstaConfig(env).ok
  /\ ~clientResult.called
  /\ fetchCalls = 0

\* C19: formatError renders 'The requested <noun> was not found.' for kind
\* NOT_FOUND when the handler passes a noun, the fixed friendly message for
\* UNAUTHORIZED, FORBIDDEN and RATE_LIMITED, and the raw classified message
\* otherwise; the response has isError = true and the text
\* 'Kinsta API Error (<KIND>): <message>'.
C19_FormatErrorPriority ==
  (tool.pc = "returned" /\ tool.stage = "failure")
    => LET e == result.error
           withNoun == tool.name = "kinsta.sites.get"
           message ==
             IF e.code = "NOT_FOUND" /\ withNoun
             THEN "The requested site was not found."
             ELSE IF e.code = "UNAUTHORIZED"
             THEN "Your API key is invalid or expired. Generate a new one in "
                    \o "MyKinsta > Company settings > API Keys."
             ELSE IF e.code = "FORBIDDEN"
             THEN "Your API key does not have permission to access this resource."
             ELSE IF e.code = "RATE_LIMITED"
             THEN "You have exceeded Kinsta's rate limit. "
                    \o "Please wait a moment before trying again."
             ELSE e.message
       IN /\ tool.response.isError
          /\ tool.response.text = "Kinsta API Error (" \o e.code \o "): " \o message
          /\ ~tool.response.structuredContent.set

\* kinsta.auth.validate, which passes no noun, returned a NOT_FOUND failure
\* with the raw message, API message included.
C19_Witness ==
  /\ tool.pc = "returned"
  /\ tool.stage = "failure"
  /\ tool.name = "kinsta.auth.validate"
  /\ result.error.code = "NOT_FOUND"
  /\ tool.response.text
       = "Kinsta API Error (NOT_FOUND): Resource not found: slow down"

\* C20: formatSuccess renders the payload as JSON text, sets
\* structuredContent to the payload exactly when the payload is an array or
\* a plain object (not for null, a number or a string), and does not set
\* isError.
C20_FormatSuccessShape ==
  (tool.pc = "returned" /\ tool.stage = "success")
    => LET data == result.data
       IN /\ ~tool.response.isError
          /\ tool.response.text = JsonStringify(data)
          /\ data.kind = "null" => tool.response.text = "null"
          /\ data.kind = "array" => tool.response.text = "[]"
          /\ data = Body("object", JStr("slow down"), JNull)
               => tool.response.text
                    = "{\n  \"message\": \"slow down\",\n  \"error\": null\n}"
          /\ tool.response.structuredContent.set
               <=> data.kind \in {"array", "object"}
          /\ tool.response.structuredContent.set
               => tool.response.structuredContent.val = data

\* A tool returned a null payload: the text is 'null' and there is no
\* structuredContent.
C20_Witness ==
  /\ tool.pc = "returned"
  /\ tool.stage = "success"
  /\ result.data.kind = "null"
  /\ tool.response.text = "null"
  /\ ~tool.response.structuredContent.set

(***************************************************************************)
(* Properties of the API message                                           *)
(***************************************************************************)
\* The call returned after reading the body of a non-success response.
ErrorResponseMapped ==
  /\ rpc = "resolved"
  /\ response.status # 0
  /\ ~Ok(response.status)
  /\ response.body.kind # "unread"

\* The member of an object body that mapHttpError's caller would expect to
\* carry the API message: `message`, or `error` when `message` is absent or
\* null.
ApiMessageMember(body) ==
  IF body.kind # "object" THEN Absent
  ELSE IF body.message.t \in {"absent", "null"} THEN body.error
  ELSE body.message

\* The classified message of a status when no API message is appended.
BaseMessage(status) == ClassifyStatus(status, NoText).message

\* C21 (as claimed): on a non-success response the API message is the string
\* found under `message`, else under `error`; when one was extracted the
\* error's apiMessage is that string and its message is the classified
\* message followed by ': ' and that string; when none was extracted, as for
\* a body that cannot be parsed, apiMessage is not set and the message has
\* no suffix.
C21_ApiMessageAppended ==
  ErrorResponseMapped
    => LET m == ApiMessageMember(response.body)
           base == BaseMessage(response.status)
       IN /\ ~result.success
          /\ m.t = "string"
               => /\ result.error.apiMessage = Text(m.s)
                  /\ result.error.message = base \o ": " \o m.s
          /\ m.t # "string"
               => /\ result.error.apiMessage = NoText
                  /\ result.error.message = base

\* C21 (amended): as claimed, except that the suffix ': <api message>' is
\* appended only when the extracted string is not empty; an empty string is
\* still preserved as apiMessage while the message carries no suffix.
C21_NonEmptyApiMessageAppended ==
  ErrorResponseMapped
    => LET m == ApiMessageMember(response.body)
           base == BaseMessage(response.status)
       IN /\ ~result.success
          /\ m.t = "string"
               => /\ result.error.apiMessage = Text(m.s)
                  /\ result.error.message
                       = (IF m.s = "" THEN base ELSE base \o ": " \o m.s)
          /\ m.t # "string"
               => /\ result.error.apiMessage = NoText
                  /\ result.error.message = base

\* A 404 whose body has a null `message` and the API message under `error`.
C21_Witness ==
  /\ ErrorResponseMapped
  /\ response.status = 404
  /\ response.body.message = JNull
  /\ response.body.error = JStr("slow down")
  /\ result.error.apiMessage = Text("slow down")
  /\ result.error.message = "Resource not found: slow down"

(***************************************************************************)
(* Properties of the health probe                                          *)
(***************************************************************************)
\* Both required variables are present and non-empty.
BothCredentialsPresent(e) ==
  /\ e["KINSTA_API_KEY"].set /\ e["KINSTA_API_KEY"].val # <<>>
  /\ e["KINSTA_COMPANY_ID"].set /\ e["KINSTA_COMPANY_ID"].val # <<>>

\* C22: isKinstaConfigured returns true exactly when loadKinstaConfig
\* succeeds in the same environment, that is when both KINSTA_API_KEY and
\* KINSTA_COMPANY_ID are present and non-empty; a kinsta.ping invocation
\* leaves the client cache and the request state (fetch calls included) as
\* they were and reports an error exactly when the environment cannot be
\* loaded.
C22_ConfiguredIffLoadable ==
  [][/\ isKinstaConfigured(env') <=> loadKinstaConfig(env').ok
     /\ isKinstaConfigured(env') <=> BothCredentialsPresent(env')
     /\ Ping => /\ UNCHANGED <<cacheVars, reqVars>>
                /\ tool'.response.isError <=> ~loadKinstaConfig(env).ok
                /\ tool'.response.isError <=> ~BothCredentialsPresent(env)]_vars

\* kinsta.ping reported an error while the cache still holds a client built
\* before the company id was emptied.
C22_Witness ==
  /\ tool.name = "kinsta.ping"
  /\ tool.response.isError
  /\ cachedClient.id # 0
  /\ ~Falsy(env["KINSTA_API_KEY"])
  /\ env["KINSTA_COMPANY_ID"] = Str(<<>>)

(***************************************************************************)
(* Properties of the cache under environment changes                       *)
(***************************************************************************)
\* C23 (as claimed): whenever getKinstaClient returns success, the
\* environment of that call can be loaded and the returned client holds the
\* API key, the company id and the (normalised) base URL of the
\* configuration the loader yields for it.
C23_ClientMatchesEnvironment ==
  [][(getKinstaClient /\ clientResult'.success)
       => /\ loadKinstaConfig(env).ok
          /\ clientResult'.client.apiKey = loadKinstaConfig(env).config.apiKey
          /\ clientResult'.client.companyId
               = loadKinstaConfig(env).config.companyId
          /\ clientResult'.client.baseUrl
               = StripTrailingSlashes(loadKinstaConfig(env).config.baseUrl)]_vars

(***************************************************************************)
(* Properties of interleaved getKinstaClient invocations                   *)
(***************************************************************************)
\* The stored fingerprint is that of an environment whose configuration the
\* cached client was built from.
FingerprintMatchesClient ==
  \E e \in Envs :
    /\ loadKinstaConfig(e).ok
    /\ KinstaClient(cachedClient.id, loadKinstaConfig(e).config) = cachedClient
    /\ cachedConfigHash = Str(getConfigHash(e))

C25_CompletionExcludesAbort ==
  response.status # 0 => (~aborted /\ timer # "fired")

\* C26: a step of a request call (the timer, fetch settling, a body read),
\* whatever its outcome, and the handler's resumption that formats the
\* result leave the cached client and the stored fingerprint unchanged; the
\* slot changes only in a step that runs getKinstaClient.
C26_OnlyFactoryMutatesCache ==
  [][/\ (TimerFires \/ FetchResolves \/ FetchRejects \/ SuccessBodyRead
           \/ ErrorBodyRead \/ ToolFinish)
          => UNCHANGED <<cachedClient, cachedConfigHash>>
     /\ (cachedClient' # cachedClient \/ cachedConfigHash' # cachedConfigHash)
          => (getKinstaClient \/ (ToolInvoke /\ tool'.asked))]_vars

\* A tool returned a success obtained through the cached client, which is
\* still cached.
C26_Witness ==
  /\ tool.pc = "returned"
  /\ tool.stage = "success"
  /\ rpc = "resolved"
  /\ result.success
  /\ RequestOnCachedClient
  /\ cachedConfigHash.set

\* C28: the cached client is set if and only if the stored fingerprint is
\* set.
C28_SlotConsistent ==
  (cachedClient.id # 0) <=> cachedConfigHash.set

\* A miss wrote both: the cache holds the client just constructed together
\* with the fingerprint of the environment, after an earlier failure had
\* cleared both.
C28_Witness ==
  /\ clientResult.constructed
  /\ cachedClient = clientResult.client
  /\ cachedClient.id > 1
  /\ cachedConfigHash = Str(getConfigHash(env))

\* C29 (as claimed): a failure envelope of kind SERVER_ERROR comes from a
\* response whose status is in 500-599.
C29_ServerErrorOnly5xx ==
  (rpc = "resolved" /\ ~result.success /\ result.error.code = "SERVER_ERROR")
    => /\ result.error.statusCode.set
       /\ result.error.statusCode.val >= 500
       /\ result.error.statusCode.val <= 599

\* A call that is suspended (in fetch or in a body read) settles.
SuspendedCallSettles ==
  (rpc \in {"fetching", "readingOk", "readingErr"})
    ~> (rpc \in {"resolved", "rejected"})

\* C30 (as claimed): every request call on a client built by the factory
\* eventually returns an envelope: a suspended call settles, and no call
\* ends by raising, whatever the base-URL override was.
C30_EveryCallReturnsEnvelope ==
  /\ SuspendedCallSettles
  /\ [](rpc # "rejected")

\* A request call is started on the handle rclient: it raises at once
\* exactly when that handle's own base URL gives no absolute URL.
CallUsesHandleUrl ==
  RequestStart =>
    ((rpc' = "rejected") <=> ~IsAbsoluteUrl(rclient.baseUrl \o Path))

\* C27: the fields of a client never change after construction: in every
\* step, each reference to a client (the cache slot, the last factory
\* result, the handle a caller holds) that still designates the same object
\* shows the same API key, company id and base URL as before; while a
\* request call is suspended the handle it runs on is the same; and a call
\* is made with the base URL of the handle it was started on, whatever the
\* environment and the cache have become.
C27_ClientFieldsImmutable ==
  [][/\ \A h \in {cachedClient, clientResult.client, rclient} :
          \A g \in {cachedClient', clientResult.client', rclient'} :
            (h.id # 0 /\ g.id = h.id) => g = h
     /\ (rpc = "fetching") => rclient' = rclient
     /\ CallUsesHandleUrl]_vars

\* A request call is suspended on a handle taken before the environment
\* changed; meanwhile the cache was invalidated and rebuilt, and holds
\* another client with another API key and another base URL.
C27_Witness ==
  /\ rpc = "fetching"
  /\ rclient.id # 0
  /\ cachedClient.id # 0
  /\ cachedClient.id > rclient.id
  /\ cachedClient.apiKey # rclient.apiKey
  /\ cachedClient.baseUrl # rclient.baseUrl
  /\ cachedClient = KinstaClient(cachedClient.id, loadKinstaConfig(env).config)

====
